---- MODULE Spec2Model ----
(***************************************************************************)
(* A model of alexeykhan/multiplexer: the rate-limited listener            *)
(* (pkg/listener + pkg/ratelimiter), the crawler worker pool               *)
(* (pkg/crawler) and the shutdown closer (pkg/closer).                     *)
(*                                                                         *)
(* The three packages share no state, so each has its own specification:   *)
(* SpecListener, SpecCrawler and SpecCloser.                               *)
(***************************************************************************)
EXTENDS Integers, Sequences, FiniteSets, TLC

\* ------------------------------------------------------------------ bounds
\* Largest window size (limit) the listener is created with.
MaxLimit == 2
\* Number of goroutines calling listener.Accept.
NumAcceptors == 2
\* Number of connections the listener may hand out in one run.
MaxConns == 3
\* Number of Close calls made on one connection.
MaxCloseCalls == 2

AcceptorIds == 1..NumAcceptors
ConnIds == 1..MaxConns

VARIABLES
    \* ---- ratelimiter.rateLimiter
    limit,        \* cap(rl.window)
    window,       \* len(rl.window): the spots taken
    rlDone,       \* rl.done is closed
    \* ---- listener.listener
    lnClosed,     \* the embedded net.Listener is closed
    lcpc,         \* listener.Close caller: "idle", "done", "returned"
    apc,          \* Accept caller: "idle", "acquire", "accept", "release"
    acquiredLock, \* Accept's local acquiredLock (FALSE outside a call)
    \* ---- listener.connection
    nextConn,     \* the next connection the embedded listener hands out
    connOnce,     \* cn.once has fired
    closeCalls    \* Close calls made on the connection so far

lvars == <<limit, window, rlDone, lnClosed, lcpc, apc, acquiredLock, nextConn, connOnce, closeCalls>>

\* ---- crawler.Crawl and its workers
VARIABLES
    urls,            \* Crawl's argument: the kind of each URL
    maxConnections,  \* cr.config.MaxConnections
    callerCancelled, \* the caller's ctx is done
    childCancelled,  \* cancel() of the derived ctx was called
    cancelPhase,     \* when the caller cancelled: "never", "before", "early", "late"
    cpc,             \* Crawl: "init", "collect", "process", "returned"
    tasks,           \* the tasks channel (closed once loaded): URL indexes
    numWorkers,      \* the workers Crawl started
    wpc,             \* worker: "off", "select", "crawl", "checked", "request", "send", "done"
    wres,            \* the Result a worker holds
    wgCount,         \* the WaitGroup counter
    resultsClosed,   \* the results channel is closed
    cur,             \* the Result the range loop received
    exitErr,         \* Crawl's exitErr
    out,             \* Crawl's out
    ret,             \* what Crawl returned
    issued,          \* URLs a request was sent for
    completed        \* URLs whose request returned

cvars == <<urls, maxConnections, callerCancelled, childCancelled, cancelPhase,
           cpc, tasks, numWorkers, wpc, wres, wgCount, resultsClosed, cur,
           exitErr, out, ret, issued, completed>>

\* ---- closer.closer
VARIABLES
    funcs,      \* c.funcs
    early,      \* the functions whose Add returned before any Close was called
    onceState,  \* c.once: "idle", "running", "done"
    doneClosed, \* c.done is closed
    clpc,       \* Close caller: "idle", "once", "body", "launch", "recv",
                \*   "exit", "returned"
    taken,      \* Close's local funcs
    launchIdx,  \* position of the launch loop in funcs
    errs,       \* the buffered errs channel
    recvd,      \* i of the receive loop
    hstate,     \* the function's goroutine: "none", "launched", "finished", "sent"
    hlaunches,  \* goroutines started for the function
    hres,       \* what the function returned: "nil", "err"
    wtpc        \* Wait caller: "idle", "waiting", "returned"

clvars == <<funcs, early, onceState, doneClosed, clpc, taken, launchIdx, errs,
            recvd, hstate, hlaunches, hres, wtpc>>

vars == <<lvars, cvars, clvars>>

\* The connections Accept has returned.
Accepted == 1..(nextConn - 1)

LInit ==
    /\ limit \in 1..MaxLimit
    /\ window = 0
    /\ rlDone = FALSE
    /\ lnClosed = FALSE
    /\ lcpc = "idle"
    /\ apc = [t \in AcceptorIds |-> "idle"]
    /\ acquiredLock = [t \in AcceptorIds |-> FALSE]
    /\ nextConn = 1
    /\ connOnce = [c \in ConnIds |-> FALSE]
    /\ closeCalls = [c \in ConnIds |-> 0]

\* ------------------------------------------------------------ ratelimiter

\* Acquire's select can take the window case: the buffered channel has room.
AcquireSlotLeaky == TRUE
AcquireSlotReady == window < limit

\* Acquire's select can take the done case: rl.done is closed.
AcquireDoneReady == rlDone

\* rl.window <- struct{}{}
WindowSend == window + 1

\* <-rl.window; blocks while the window is empty.
ReleaseReady == window > 0
WindowRecv == window - 1

\* ---------------------------------------------------------------- listener

\* A caller enters Accept.
AcceptCall(t) ==
    /\ apc[t] = "idle"
    /\ apc' = [apc EXCEPT ![t] = "acquire"]
    /\ UNCHANGED <<limit, window, rlDone, lnClosed, lcpc, acquiredLock, nextConn, connOnce, closeCalls>>
    /\ UNCHANGED <<cvars, clvars>>

\* acquiredLock := rl.RateLimiter.Acquire(), the window case.
AcquireTrue(t) ==
    /\ apc[t] = "acquire"
    /\ AcquireSlotReady
    /\ window' = WindowSend
    /\ acquiredLock' = [acquiredLock EXCEPT ![t] = TRUE]
    /\ apc' = [apc EXCEPT ![t] = "accept"]
    /\ UNCHANGED <<limit, rlDone, lnClosed, lcpc, nextConn, connOnce,
                   closeCalls>>
    /\ UNCHANGED <<cvars, clvars>>

\* acquiredLock := rl.RateLimiter.Acquire(), the done case.
AcquireFalse(t) ==
    /\ apc[t] = "acquire"
    /\ AcquireDoneReady
    /\ acquiredLock' = [acquiredLock EXCEPT ![t] = FALSE]
    /\ apc' = [apc EXCEPT ![t] = "accept"]
    /\ UNCHANGED <<limit, window, rlDone, lnClosed, lcpc, nextConn,
                   connOnce, closeCalls>>
    /\ UNCHANGED <<cvars, clvars>>

\* rl.Listener.Accept() returns a connection: Accept wraps and returns it.
AcceptOk(t) ==
    /\ apc[t] = "accept"
    /\ ~lnClosed
    /\ nextConn <= MaxConns
    /\ nextConn' = nextConn + 1
    /\ apc' = [apc EXCEPT ![t] = "idle"]
    /\ acquiredLock' = [acquiredLock EXCEPT ![t] = FALSE]
    /\ UNCHANGED <<limit, window, rlDone, lnClosed, lcpc, connOnce, closeCalls>>
    /\ UNCHANGED <<cvars, clvars>>

\* rl.Listener.Accept() fails (always once the listener is closed): the
\* spot is released if one was acquired, and the error returned.
AcceptErrNeverReleases(t) ==
    /\ apc[t] = "accept"
    /\ apc' = [apc EXCEPT ![t] = "idle"]
    /\ acquiredLock' = [acquiredLock EXCEPT ![t] = FALSE]
    /\ UNCHANGED <<limit, window, rlDone, lnClosed, lcpc, nextConn, connOnce,
                   closeCalls>>
    /\ UNCHANGED <<cvars, clvars>>
AcceptErrAlwaysReleases(t) ==
    /\ apc[t] = "accept"
    /\ apc' = [apc EXCEPT ![t] = "release"]
    /\ UNCHANGED <<limit, window, rlDone, lnClosed, lcpc, acquiredLock,
                   nextConn, connOnce, closeCalls>>
    /\ UNCHANGED <<cvars, clvars>>
AcceptErr(t) ==
    /\ apc[t] = "accept"
    /\ apc' = [apc EXCEPT ![t] = IF acquiredLock[t] THEN "release" ELSE "idle"]
    /\ UNCHANGED <<limit, window, rlDone, lnClosed, lcpc, acquiredLock,
                   nextConn, connOnce, closeCalls>>
    /\ UNCHANGED <<cvars, clvars>>

\* The error path's rl.RateLimiter.Release(), then return nil, err.
AcceptRelease(t) ==
    /\ apc[t] = "release"
    /\ ReleaseReady
    /\ window' = WindowRecv
    /\ apc' = [apc EXCEPT ![t] = "idle"]
    /\ acquiredLock' = [acquiredLock EXCEPT ![t] = FALSE]
    /\ UNCHANGED <<limit, rlDone, lnClosed, lcpc, nextConn, connOnce, closeCalls>>
    /\ UNCHANGED <<cvars, clvars>>

ListenerCloseDoneFirst ==
    /\ lcpc = "idle"
    /\ rlDone' = TRUE
    /\ lcpc' = "done"
    /\ UNCHANGED <<limit, window, lnClosed, apc, acquiredLock, nextConn,
                   connOnce, closeCalls>>
    /\ UNCHANGED <<cvars, clvars>>

\* listener.Close, first statement: err := rl.Listener.Close().
ListenerClose ==
    /\ lcpc = "idle"
    /\ lnClosed' = TRUE
    /\ lcpc' = "done"
    /\ UNCHANGED <<limit, window, rlDone, apc, acquiredLock, nextConn,
                   connOnce, closeCalls>>
    /\ UNCHANGED <<cvars, clvars>>

ListenerDoneForgotten ==
    /\ lcpc = "done"
    /\ lcpc' = "returned"
    /\ UNCHANGED <<limit, window, rlDone, lnClosed, apc, acquiredLock, nextConn,
                   connOnce, closeCalls>>
    /\ UNCHANGED <<cvars, clvars>>

\* listener.Close, second statement: rl.RateLimiter.Done().
ListenerDone ==
    /\ lcpc = "done"
    /\ rlDone' = TRUE
    /\ lcpc' = "returned"
    /\ UNCHANGED <<limit, window, lnClosed, apc, acquiredLock, nextConn,
                   connOnce, closeCalls>>
    /\ UNCHANGED <<cvars, clvars>>

\* Whether cn.once.Do runs its function.
OnceSkipsNever(c) == TRUE
OnceFires(c) == ~connOnce[c]

\* connection.Close: err = cn.Conn.Close(); cn.once.Do(cn.release). The calls
\* on one connection are serialised by cn.once, whose function is Release.
ConnClose(c) ==
    /\ c \in Accepted
    /\ closeCalls[c] < MaxCloseCalls
    /\ closeCalls' = [closeCalls EXCEPT ![c] = @ + 1]
    /\ IF OnceFires(c)
         THEN /\ ReleaseReady
              /\ window' = WindowRecv
              /\ connOnce' = [connOnce EXCEPT ![c] = TRUE]
         ELSE UNCHANGED <<window, connOnce>>
    /\ UNCHANGED <<limit, rlDone, lnClosed, lcpc, apc, acquiredLock, nextConn>>
    /\ UNCHANGED <<cvars, clvars>>

LNext ==
    \/ \E t \in AcceptorIds :
          \/ AcceptCall(t)
          \/ AcquireTrue(t)
          \/ AcquireFalse(t)
          \/ AcceptOk(t)
          \/ AcceptErr(t)
          \/ AcceptRelease(t)
    \/ ListenerClose
    \/ ListenerDone
    \/ \E c \in ConnIds : ConnClose(c)

\* =================================================================== crawler

\* ------------------------------------------------------------------ bounds
\* Longest URL list passed to Crawl.
MaxURLs == 2
\* Largest Config.MaxConnections the crawler is created with.
MaxConnectionsBound == 2

\* What a URL of the list is: "ok" is fetched with status 200 and a JSON body,
\* "bad" is fetched with an error (transport, status, body or JSON),
\* "invalid" fails the url.ParseRequestURI check.
URLKinds == {"ok", "bad", "invalid"}
WorkerIds == 1..MaxConnectionsBound

NoErr == [kind |-> "none", url |-> 0]
NoResult == [url |-> 0, err |-> "none"]

\* Sequences over S of length at most n.
SeqUpTo(S, n) == UNION {[1..k -> S] : k \in 0..n}

CInit ==
    /\ urls \in SeqUpTo(URLKinds, MaxURLs)
    /\ maxConnections \in 1..MaxConnectionsBound
    /\ callerCancelled = FALSE
    /\ childCancelled = FALSE
    /\ cancelPhase = "never"
    /\ cpc = "init"
    /\ tasks = <<>>
    /\ numWorkers = 0
    /\ wpc = [w \in WorkerIds |-> "off"]
    /\ wres = [w \in WorkerIds |-> NoResult]
    /\ wgCount = 0
    /\ resultsClosed = FALSE
    /\ cur = NoResult
    /\ exitErr = NoErr
    /\ out = <<>>
    /\ ret = [results |-> <<>>, isNil |-> TRUE, err |-> NoErr]
    /\ issued = {}
    /\ completed = {}

\* <-ctx.Done() of the derived context is ready.
CtxDone == callerCancelled \/ childCancelled

Min(a, b) == IF a < b THEN a ELSE b

\* The index of the first URL the validation loop rejects, 0 when none.
FirstInvalidSkipped(us) == 0
FirstInvalid(us) ==
    IF \E i \in 1..Len(us) : us[i] = "invalid"
      THEN CHOOSE i \in 1..Len(us) :
              /\ us[i] = "invalid"
              /\ \A j \in 1..(i - 1) : us[j] # "invalid"
      ELSE 0

\* The caller cancels the context it passed to Crawl.
CallerCancel ==
    /\ ~callerCancelled
    /\ cpc # "returned"
    /\ callerCancelled' = TRUE
    /\ cancelPhase' = IF cpc = "init" THEN "before"
                      ELSE IF completed = {} THEN "early" ELSE "late"
    /\ UNCHANGED <<urls, maxConnections, childCancelled, cpc, tasks,
                   numWorkers, wpc, wres, wgCount, resultsClosed, cur, exitErr,
                   out, ret, issued, completed>>
    /\ UNCHANGED <<lvars, clvars>>

\* Crawl's first select: the context is already done.
CrawlCtxDone ==
    /\ cpc = "init"
    /\ callerCancelled
    /\ ret' = [results |-> <<>>, isNil |-> TRUE, err |-> [kind |-> "ctx", url |-> 0]]
    /\ cpc' = "returned"
    /\ UNCHANGED <<urls, maxConnections, callerCancelled, childCancelled,
                   cancelPhase, tasks, numWorkers, wpc, wres, wgCount,
                   resultsClosed, cur, exitErr, out, issued, completed>>
    /\ UNCHANGED <<lvars, clvars>>

\* len(urls) == 0: return nil, nil.
CrawlEmpty ==
    /\ cpc = "init"
    /\ ~callerCancelled
    /\ Len(urls) = 0
    /\ ret' = [results |-> <<>>, isNil |-> TRUE, err |-> NoErr]
    /\ cpc' = "returned"
    /\ UNCHANGED <<urls, maxConnections, callerCancelled, childCancelled,
                   cancelPhase, tasks, numWorkers, wpc, wres, wgCount,
                   resultsClosed, cur, exitErr, out, issued, completed>>
    /\ UNCHANGED <<lvars, clvars>>

\* The validation loop met an invalid URL: return nil, invalidURLErr.
CrawlInvalid ==
    /\ cpc = "init"
    /\ ~callerCancelled
    /\ Len(urls) > 0
    /\ FirstInvalid(urls) # 0
    /\ ret' = [results |-> <<>>, isNil |-> TRUE,
               err |-> [kind |-> "invalid", url |-> FirstInvalid(urls)]]
    /\ cpc' = "returned"
    /\ UNCHANGED <<urls, maxConnections, callerCancelled, childCancelled,
                   cancelPhase, tasks, numWorkers, wpc, wres, wgCount,
                   resultsClosed, cur, exitErr, out, issued, completed>>
    /\ UNCHANGED <<lvars, clvars>>

\* numWorkers: MaxConnections, capped by len(urls).
NumWorkersUncapped(m, n) == m
NumWorkers(m, n) == Min(m, n)

\* The tasks are queued, the workers started, and Crawl ranges over results.
CrawlLaunch ==
    /\ cpc = "init"
    /\ ~callerCancelled
    /\ Len(urls) > 0
    /\ FirstInvalid(urls) = 0
    /\ tasks' = [i \in 1..Len(urls) |-> i]
    /\ numWorkers' = NumWorkers(maxConnections, Len(urls))
    /\ wgCount' = numWorkers'
    /\ wpc' = [w \in WorkerIds |-> IF w <= numWorkers' THEN "select" ELSE "off"]
    /\ cpc' = "collect"
    /\ UNCHANGED <<urls, maxConnections, callerCancelled, childCancelled,
                   cancelPhase, wres, resultsClosed, cur, exitErr, out, ret,
                   issued, completed>>
    /\ UNCHANGED <<lvars, clvars>>

WorkerStopOnCancelNoDone(w) ==
    /\ wpc[w] = "select"
    /\ CtxDone
    /\ wpc' = [wpc EXCEPT ![w] = "done"]
    /\ UNCHANGED <<urls, maxConnections, callerCancelled, childCancelled,
                   cancelPhase, cpc, tasks, numWorkers, wres, wgCount,
                   resultsClosed, cur, exitErr, out, ret, issued, completed>>
    /\ UNCHANGED <<lvars, clvars>>

\* worker's select, case <-ctx.Done(): return (wg.Done is deferred).
WorkerStopOnCancel(w) ==
    /\ wpc[w] = "select"
    /\ CtxDone
    /\ wpc' = [wpc EXCEPT ![w] = "done"]
    /\ wgCount' = wgCount - 1
    /\ UNCHANGED <<urls, maxConnections, callerCancelled, childCancelled,
                   cancelPhase, cpc, tasks, numWorkers, wres, resultsClosed,
                   cur, exitErr, out, ret, issued, completed>>
    /\ UNCHANGED <<lvars, clvars>>

\* worker's select, case <-tasks with the channel closed and drained: return.
WorkerStopOnDrained(w) ==
    /\ wpc[w] = "select"
    /\ tasks = <<>>
    /\ wpc' = [wpc EXCEPT ![w] = "done"]
    /\ wgCount' = wgCount - 1
    /\ UNCHANGED <<urls, maxConnections, callerCancelled, childCancelled,
                   cancelPhase, cpc, tasks, numWorkers, wres, resultsClosed,
                   cur, exitErr, out, ret, issued, completed>>
    /\ UNCHANGED <<lvars, clvars>>

\* worker's select, case url := <-tasks: call crawl(ctx, url).
WorkerTake(w) ==
    /\ wpc[w] = "select"
    /\ tasks # <<>>
    /\ wres' = [wres EXCEPT ![w] = [url |-> Head(tasks), err |-> "none"]]
    /\ tasks' = Tail(tasks)
    /\ wpc' = [wpc EXCEPT ![w] = "crawl"]
    /\ UNCHANGED <<urls, maxConnections, callerCancelled, childCancelled,
                   cancelPhase, cpc, numWorkers, wgCount, resultsClosed, cur,
                   exitErr, out, ret, issued, completed>>
    /\ UNCHANGED <<lvars, clvars>>

\* crawl's select: the context is done, so the task fails without a request.
CrawlStopped(w) ==
    /\ wpc[w] = "crawl"
    /\ CtxDone
    /\ wres' = [wres EXCEPT ![w].err = "ctx"]
    /\ wpc' = [wpc EXCEPT ![w] = "send"]
    /\ UNCHANGED <<urls, maxConnections, callerCancelled, childCancelled,
                   cancelPhase, cpc, tasks, numWorkers, wgCount, resultsClosed,
                   cur, exitErr, out, ret, issued, completed>>
    /\ UNCHANGED <<lvars, clvars>>

CrawlCheckSkipped(w) ==
    /\ wpc[w] = "crawl"
    /\ wpc' = [wpc EXCEPT ![w] = "checked"]
    /\ UNCHANGED <<urls, maxConnections, callerCancelled, childCancelled,
                   cancelPhase, cpc, tasks, numWorkers, wres, wgCount,
                   resultsClosed, cur, exitErr, out, ret, issued, completed>>
    /\ UNCHANGED <<lvars, clvars>>

\* crawl's select, default: the context is not done, crawl goes on.
CrawlCheckPassed(w) ==
    /\ wpc[w] = "crawl"
    /\ ~CtxDone
    /\ wpc' = [wpc EXCEPT ![w] = "checked"]
    /\ UNCHANGED <<urls, maxConnections, callerCancelled, childCancelled,
                   cancelPhase, cpc, tasks, numWorkers, wres, wgCount,
                   resultsClosed, cur, exitErr, out, ret, issued, completed>>
    /\ UNCHANGED <<lvars, clvars>>

\* The request is built and handed to cr.client.Do.
CrawlRequest(w) ==
    /\ wpc[w] = "checked"
    /\ issued' = issued \cup {wres[w].url}
    /\ wpc' = [wpc EXCEPT ![w] = "request"]
    /\ UNCHANGED <<urls, maxConnections, callerCancelled, childCancelled,
                   cancelPhase, cpc, tasks, numWorkers, wres, wgCount,
                   resultsClosed, cur, exitErr, out, ret, completed>>
    /\ UNCHANGED <<lvars, clvars>>

\* The outcomes of cr.client.Do and the checks on the response: the URL's own
\* outcome, or the transport's error when the context is done meanwhile.
FetchOutcomes(kind, ctxDone) ==
    {IF kind = "ok" THEN "none" ELSE "fetch"} \cup (IF ctxDone THEN {"ctx"} ELSE {})

\* crawl returns the Result of the request.
CrawlFetched(w) ==
    /\ wpc[w] = "request"
    /\ \E e \in FetchOutcomes(urls[wres[w].url], CtxDone) :
          wres' = [wres EXCEPT ![w].err = e]
    /\ completed' = completed \cup {wres[w].url}
    /\ wpc' = [wpc EXCEPT ![w] = "send"]
    /\ UNCHANGED <<urls, maxConnections, callerCancelled, childCancelled,
                   cancelPhase, cpc, tasks, numWorkers, wgCount, resultsClosed,
                   cur, exitErr, out, ret, issued>>
    /\ UNCHANGED <<lvars, clvars>>

\* results <- res meets the range loop's receive (the channel is unbuffered).
Deliver(w) ==
    /\ wpc[w] = "send"
    /\ cpc = "collect"
    /\ ~resultsClosed
    /\ cur' = wres[w]
    /\ wres' = [wres EXCEPT ![w] = NoResult]
    /\ wpc' = [wpc EXCEPT ![w] = "select"]
    /\ cpc' = "process"
    /\ UNCHANGED <<urls, maxConnections, callerCancelled, childCancelled,
                   cancelPhase, tasks, numWorkers, wgCount, resultsClosed,
                   exitErr, out, ret, issued, completed>>
    /\ UNCHANGED <<lvars, clvars>>

\* The range loop's body, exitErr already set: the result is skipped.
CollectSkipOverwrites ==
    /\ cpc = "process"
    /\ exitErr # NoErr
    /\ exitErr' = IF cur.err # "none" THEN [kind |-> cur.err, url |-> cur.url]
                  ELSE exitErr
    /\ cur' = NoResult
    /\ cpc' = "collect"
    /\ UNCHANGED <<urls, maxConnections, callerCancelled, childCancelled,
                   cancelPhase, tasks, numWorkers, wpc, wres, wgCount,
                   resultsClosed, out, ret, issued, completed>>
    /\ UNCHANGED <<lvars, clvars>>
CollectSkip ==
    /\ cpc = "process"
    /\ exitErr # NoErr
    /\ cur' = NoResult
    /\ cpc' = "collect"
    /\ UNCHANGED <<urls, maxConnections, callerCancelled, childCancelled,
                   cancelPhase, tasks, numWorkers, wpc, wres, wgCount,
                   resultsClosed, exitErr, out, ret, issued, completed>>
    /\ UNCHANGED <<lvars, clvars>>

\* The range loop's body, the first error: exitErr is set and cancel() called.
CollectError ==
    /\ cpc = "process"
    /\ exitErr = NoErr
    /\ cur.err # "none"
    /\ exitErr' = [kind |-> cur.err, url |-> cur.url]
    /\ childCancelled' = TRUE
    /\ cur' = NoResult
    /\ cpc' = "collect"
    /\ UNCHANGED <<urls, maxConnections, callerCancelled, cancelPhase, tasks,
                   numWorkers, wpc, wres, wgCount, resultsClosed, out, ret,
                   issued, completed>>
    /\ UNCHANGED <<lvars, clvars>>

\* The range loop's body, a result: out = append(out, res).
CollectResultOverwrites ==
    /\ cpc = "process"
    /\ exitErr = NoErr
    /\ cur.err = "none"
    /\ out' = <<cur.url>>
    /\ cur' = NoResult
    /\ cpc' = "collect"
    /\ UNCHANGED <<urls, maxConnections, callerCancelled, childCancelled,
                   cancelPhase, tasks, numWorkers, wpc, wres, wgCount,
                   resultsClosed, exitErr, ret, issued, completed>>
    /\ UNCHANGED <<lvars, clvars>>
CollectResult ==
    /\ cpc = "process"
    /\ exitErr = NoErr
    /\ cur.err = "none"
    /\ out' = Append(out, cur.url)
    /\ cur' = NoResult
    /\ cpc' = "collect"
    /\ UNCHANGED <<urls, maxConnections, callerCancelled, childCancelled,
                   cancelPhase, tasks, numWorkers, wpc, wres, wgCount,
                   resultsClosed, exitErr, ret, issued, completed>>
    /\ UNCHANGED <<lvars, clvars>>

\* wg.Wait() returns: every worker has called wg.Done().
WaitGroupEarly == TRUE
WaitGroupDone == wgCount = 0

\* The goroutine of Crawl: wg.Wait(); close(results).
CloseResults ==
    /\ cpc \in {"collect", "process"}
    /\ ~resultsClosed
    /\ WaitGroupDone
    /\ resultsClosed' = TRUE
    /\ UNCHANGED <<urls, maxConnections, callerCancelled, childCancelled,
                   cancelPhase, cpc, tasks, numWorkers, wpc, wres, wgCount,
                   cur, exitErr, out, ret, issued, completed>>
    /\ UNCHANGED <<lvars, clvars>>

\* The range loop ends; Crawl returns nil and exitErr, or out and nil (the
\* deferred cancel() runs).
CrawlReturn ==
    /\ cpc = "collect"
    /\ resultsClosed
    /\ ret' = IF exitErr # NoErr
                THEN [results |-> <<>>, isNil |-> TRUE, err |-> exitErr]
                ELSE [results |-> out, isNil |-> FALSE, err |-> NoErr]
    /\ childCancelled' = TRUE
    /\ cpc' = "returned"
    /\ UNCHANGED <<urls, maxConnections, callerCancelled, cancelPhase, tasks,
                   numWorkers, wpc, wres, wgCount, resultsClosed, cur, exitErr,
                   out, issued, completed>>
    /\ UNCHANGED <<lvars, clvars>>

CNext ==
    \/ CallerCancel
    \/ CrawlCtxDone
    \/ CrawlEmpty
    \/ CrawlInvalid
    \/ CrawlLaunch
    \/ \E w \in WorkerIds :
          \/ WorkerStopOnCancel(w)
          \/ WorkerStopOnDrained(w)
          \/ WorkerTake(w)
          \/ CrawlStopped(w)
          \/ CrawlCheckPassed(w)
          \/ CrawlRequest(w)
          \/ CrawlFetched(w)
          \/ Deliver(w)
    \/ CollectSkip
    \/ CollectError
    \/ CollectResult
    \/ CloseResults
    \/ CrawlReturn

\* ==================================================================== closer

\* ------------------------------------------------------------------ bounds
\* Number of functions that may be passed to Add, one per call.
NumHooks == 2
\* Number of goroutines calling Close, once each.
NumClosers == 2
\* Number of goroutines calling Wait, once each.
NumWaiters == 1

HookIds == 1..NumHooks
CloserIds == 1..NumClosers
WaiterIds == 1..NumWaiters

ClInit ==
    /\ funcs = <<>>
    /\ early = {}
    /\ onceState = "idle"
    /\ doneClosed = FALSE
    /\ clpc = [k \in CloserIds |-> "idle"]
    /\ taken = <<>>
    /\ launchIdx = 1
    /\ errs = <<>>
    /\ recvd = 0
    /\ hstate = [h \in HookIds |-> "none"]
    /\ hlaunches = [h \in HookIds |-> 0]
    /\ hres = [h \in HookIds |-> "nil"]
    /\ wtpc = [j \in WaiterIds |-> "idle"]

\* The functions Add was called with so far.
Registered == {funcs[i] : i \in 1..Len(funcs)} \cup {taken[i] : i \in 1..Len(taken)}

\* Some goroutine has called Close.
TriggerBegun == \E k \in CloserIds : clpc[k] # "idle"

\* Close has taken c.funcs under the lock.
TakeDone == onceState # "idle" /\ \A k \in CloserIds : clpc[k] # "body"

AddSharesSlice(h) ==
    /\ h = Cardinality(Registered) + 1
    /\ IF TakeDone /\ \E k \in CloserIds : clpc[k] = "launch"
         THEN taken' = Append(taken, h) /\ funcs' = funcs
         ELSE funcs' = Append(funcs, h) /\ taken' = taken
    /\ early' = IF TriggerBegun THEN early ELSE early \cup {h}
    /\ UNCHANGED <<onceState, doneClosed, clpc, launchIdx, errs, recvd,
                   hstate, hlaunches, hres, wtpc>>
    /\ UNCHANGED <<lvars, cvars>>

\* Add(f): c.Lock(); c.funcs = append(c.funcs, f); c.Unlock(). The functions
\* are numbered in the order of the Add calls.
Add(h) ==
    /\ h = Cardinality(Registered) + 1
    /\ funcs' = Append(funcs, h)
    /\ early' = IF TriggerBegun THEN early ELSE early \cup {h}
    /\ UNCHANGED <<onceState, doneClosed, clpc, taken, launchIdx, errs, recvd,
                   hstate, hlaunches, hres, wtpc>>
    /\ UNCHANGED <<lvars, cvars>>

\* A goroutine calls Wait.
WaitCall(j) ==
    /\ wtpc[j] = "idle"
    /\ wtpc' = [wtpc EXCEPT ![j] = "waiting"]
    /\ UNCHANGED <<funcs, early, onceState, doneClosed, clpc, taken, launchIdx,
                   errs, recvd, hstate, hlaunches, hres>>
    /\ UNCHANGED <<lvars, cvars>>

\* <-c.done is ready.
WaitReady == doneClosed

\* Wait returns.
WaitReturn(j) ==
    /\ wtpc[j] = "waiting"
    /\ WaitReady
    /\ wtpc' = [wtpc EXCEPT ![j] = "returned"]
    /\ UNCHANGED <<funcs, early, onceState, doneClosed, clpc, taken, launchIdx,
                   errs, recvd, hstate, hlaunches, hres>>
    /\ UNCHANGED <<lvars, cvars>>

\* A goroutine calls Close.
CloseCall(k) ==
    /\ clpc[k] = "idle"
    /\ clpc' = [clpc EXCEPT ![k] = "once"]
    /\ UNCHANGED <<funcs, early, onceState, doneClosed, taken, launchIdx, errs,
                   recvd, hstate, hlaunches, hres, wtpc>>
    /\ UNCHANGED <<lvars, cvars>>

OnceDoAgain(k) ==
    /\ clpc[k] = "once"
    /\ onceState \in {"idle", "done"}
    /\ onceState' = "running"
    /\ clpc' = [clpc EXCEPT ![k] = "body"]
    /\ UNCHANGED <<funcs, early, doneClosed, taken, launchIdx, errs, recvd,
                   hstate, hlaunches, hres, wtpc>>
    /\ UNCHANGED <<lvars, cvars>>

\* c.once.Do, the first caller: it runs the function.
OnceDo(k) ==
    /\ clpc[k] = "once"
    /\ onceState = "idle"
    /\ onceState' = "running"
    /\ clpc' = [clpc EXCEPT ![k] = "body"]
    /\ UNCHANGED <<funcs, early, doneClosed, taken, launchIdx, errs, recvd,
                   hstate, hlaunches, hres, wtpc>>
    /\ UNCHANGED <<lvars, cvars>>

OnceSkipAtOnce(k) ==
    /\ clpc[k] = "once"
    /\ onceState \in {"running", "done"}
    /\ clpc' = [clpc EXCEPT ![k] = "returned"]
    /\ UNCHANGED <<funcs, early, onceState, doneClosed, taken, launchIdx, errs,
                   recvd, hstate, hlaunches, hres, wtpc>>
    /\ UNCHANGED <<lvars, cvars>>

\* c.once.Do, a later caller: it returns once the first call has returned.
OnceSkip(k) ==
    /\ clpc[k] = "once"
    /\ onceState = "done"
    /\ clpc' = [clpc EXCEPT ![k] = "returned"]
    /\ UNCHANGED <<funcs, early, onceState, doneClosed, taken, launchIdx, errs,
                   recvd, hstate, hlaunches, hres, wtpc>>
    /\ UNCHANGED <<lvars, cvars>>

\* What Close takes from c.funcs under the lock.
TakeAllButLast(fs) == IF fs = <<>> THEN fs ELSE SubSeq(fs, 1, Len(fs) - 1)
TakeFuncs(fs) == fs

\* c.Lock(); funcs := c.funcs; c.funcs = nil; c.Unlock(); errs is made.
CloseTake(k) ==
    /\ clpc[k] = "body"
    /\ taken' = TakeFuncs(funcs)
    /\ funcs' = <<>>
    /\ launchIdx' = 1
    /\ errs' = <<>>
    /\ recvd' = 0
    /\ clpc' = [clpc EXCEPT ![k] = IF taken' = <<>> THEN "recv" ELSE "launch"]
    /\ UNCHANGED <<early, onceState, doneClosed, hstate, hlaunches, hres, wtpc>>
    /\ UNCHANGED <<lvars, cvars>>

\* The launch loop: go func(f) { errs <- f() }(f).
CloseLaunch(k) ==
    /\ clpc[k] = "launch"
    /\ launchIdx <= Len(taken)
    /\ hstate' = [hstate EXCEPT ![taken[launchIdx]] = "launched"]
    /\ hlaunches' = [hlaunches EXCEPT ![taken[launchIdx]] = @ + 1]
    /\ launchIdx' = launchIdx + 1
    /\ clpc' = [clpc EXCEPT ![k] = IF launchIdx' > Len(taken) THEN "recv" ELSE "launch"]
    /\ UNCHANGED <<funcs, early, onceState, doneClosed, taken, errs, recvd,
                   hres, wtpc>>
    /\ UNCHANGED <<lvars, cvars>>

\* The function runs and returns nil or an error.
HookRun(h) ==
    /\ hstate[h] = "launched"
    /\ \E r \in {"nil", "err"} : hres' = [hres EXCEPT ![h] = r]
    /\ hstate' = [hstate EXCEPT ![h] = "finished"]
    /\ UNCHANGED <<funcs, early, onceState, doneClosed, clpc, taken, launchIdx,
                   errs, recvd, hlaunches, wtpc>>
    /\ UNCHANGED <<lvars, cvars>>

HookSendOnlyNil(h) ==
    /\ hstate[h] = "finished"
    /\ hres[h] = "nil"
    /\ Len(errs) < Len(taken)
    /\ errs' = Append(errs, hres[h])
    /\ hstate' = [hstate EXCEPT ![h] = "sent"]
    /\ UNCHANGED <<funcs, early, onceState, doneClosed, clpc, taken, launchIdx,
                   recvd, hres, hlaunches, wtpc>>
    /\ UNCHANGED <<lvars, cvars>>

\* errs <- f(): the channel has room for every function.
HookSend(h) ==
    /\ hstate[h] = "finished"
    /\ Len(errs) < Len(taken)
    /\ errs' = Append(errs, hres[h])
    /\ hstate' = [hstate EXCEPT ![h] = "sent"]
    /\ UNCHANGED <<funcs, early, onceState, doneClosed, clpc, taken, launchIdx,
                   recvd, hres, hlaunches, wtpc>>
    /\ UNCHANGED <<lvars, cvars>>

\* The receive loop's bound: cap(errs).
RecvBoundShort(fs) == IF fs = <<>> THEN 0 ELSE Len(fs) - 1
RecvBound(fs) == Len(fs)

\* The receive loop: err := <-errs (an error is logged).
CloseRecv(k) ==
    /\ clpc[k] = "recv"
    /\ recvd < RecvBound(taken)
    /\ errs # <<>>
    /\ errs' = Tail(errs)
    /\ recvd' = recvd + 1
    /\ UNCHANGED <<funcs, early, onceState, doneClosed, clpc, taken, launchIdx,
                   hstate, hlaunches, hres, wtpc>>
    /\ UNCHANGED <<lvars, cvars>>

\* The receive loop ends and the deferred close(c.done) runs.
CloseDone(k) ==
    /\ clpc[k] = "recv"
    /\ recvd >= RecvBound(taken)
    /\ doneClosed' = TRUE
    /\ clpc' = [clpc EXCEPT ![k] = "exit"]
    /\ UNCHANGED <<funcs, early, onceState, taken, launchIdx, errs, recvd,
                   hstate, hlaunches, hres, wtpc>>
    /\ UNCHANGED <<lvars, cvars>>

\* The function passed to once.Do has returned: the Once is done, Close returns.
OnceDone(k) ==
    /\ clpc[k] = "exit"
    /\ onceState' = "done"
    /\ clpc' = [clpc EXCEPT ![k] = "returned"]
    /\ UNCHANGED <<funcs, early, doneClosed, taken, launchIdx, errs, recvd,
                   hstate, hlaunches, hres, wtpc>>
    /\ UNCHANGED <<lvars, cvars>>

ClNext ==
    \/ \E h \in HookIds :
          \/ Add(h)
          \/ HookRun(h)
          \/ HookSend(h)
    \/ \E j \in WaiterIds :
          \/ WaitCall(j)
          \/ WaitReturn(j)
    \/ \E k \in CloserIds :
          \/ CloseCall(k)
          \/ OnceDo(k)
          \/ OnceSkip(k)
          \/ CloseTake(k)
          \/ CloseLaunch(k)
          \/ CloseRecv(k)
          \/ CloseDone(k)
          \/ OnceDone(k)

\* ============================================================ specifications

\* The listener alone: the crawler and the closer stay in one initial state.
InitListener ==
    /\ LInit
    /\ CInit /\ urls = <<>> /\ maxConnections = 1
    /\ ClInit

InitCrawler == LInit /\ limit = 1 /\ CInit /\ ClInit

InitCloser ==
    /\ LInit /\ limit = 1
    /\ CInit /\ urls = <<>> /\ maxConnections = 1
    /\ ClInit

SpecListener == InitListener /\ [][LNext]_vars
SpecCrawler == InitCrawler /\ [][CNext]_vars
SpecCloser == InitCloser /\ [][ClNext]_vars

\* The steps of worker w; CrawlFetched is the fetch completing or failing.
WorkerStep(w) ==
    \/ WorkerStopOnCancel(w)
    \/ WorkerStopOnDrained(w)
    \/ WorkerTake(w)
    \/ CrawlStopped(w)
    \/ CrawlCheckPassed(w)
    \/ CrawlRequest(w)
    \/ CrawlFetched(w)
    \/ Deliver(w)

\* The steps of the goroutine that called Crawl.
CrawlStep ==
    \/ CrawlCtxDone
    \/ CrawlEmpty
    \/ CrawlInvalid
    \/ CrawlLaunch
    \/ CollectSkip
    \/ CollectError
    \/ CollectResult
    \/ CrawlReturn

\* The crawler with every goroutine that can take a step taking one
\* eventually; the caller's cancellation may or may not come.
SpecCrawlerFair ==
    /\ InitCrawler
    /\ [][CNext]_vars
    /\ WF_vars(CrawlStep)
    /\ WF_vars(CloseResults)
    /\ \A w \in WorkerIds : WF_vars(WorkerStep(w))

\* The steps of the goroutine that called Close as k.
CloserStep(k) ==
    \/ OnceDo(k)
    \/ OnceSkip(k)
    \/ CloseTake(k)
    \/ CloseLaunch(k)
    \/ CloseRecv(k)
    \/ CloseDone(k)
    \/ OnceDone(k)

\* The steps of the goroutine Close started for h: the function terminates
\* and its result is sent.
HookStep(h) == HookRun(h) \/ HookSend(h)

\* The closer with every goroutine that can take a step taking one eventually.
SpecCloserFair ==
    /\ InitCloser
    /\ [][ClNext]_vars
    /\ \A k \in CloserIds : WF_vars(CloserStep(k))
    /\ \A h \in HookIds : WF_vars(HookStep(h))
    /\ \A j \in WaiterIds : WF_vars(WaitReturn(j))

\* ==================================================================== claims

\* --------------------------------------------------------------- crawler

\* Crawl has returned and every worker it started has exited.
WorkersExited == \A w \in WorkerIds : wpc[w] \in {"off", "done"}

\* C1: Crawl is all-or-nothing. Whenever Crawl returns for a non-empty list,
\* either the error is nil and the results are exactly one per URL, or the
\* results are nil and the error is not nil; this also in the runs where the
\* caller cancels the context after the call has started.
C1_AllOrNothing ==
    (cpc = "returned" /\ Len(urls) > 0) =>
        \/ /\ ret.err = NoErr
           /\ ~ret.isNil
           /\ Len(ret.results) = Len(urls)
           /\ {ret.results[i] : i \in 1..Len(ret.results)} = 1..Len(urls)
        \/ /\ ret.err # NoErr
           /\ ret.isNil

\* C3: when the caller cancels after Crawl has started and before any fetch
\* has completed, Crawl returns a non-nil error, and no request is sent once
\* the context is cancelled.
C3_EarlyCancelIsAnError ==
    /\ []((cpc = "returned" /\ cancelPhase = "early") => ret.err # NoErr)
    /\ [][callerCancelled => issued' = issued]_vars

\* C4: for a list holding a URL whose fetch fails, Crawl returns nil results
\* and an error, and every worker has exited by then.
C4_FailingURLAborts ==
    (cpc = "returned" /\ \E i \in 1..Len(urls) : urls[i] = "bad") =>
        /\ ret.isNil
        /\ ret.err # NoErr
        /\ WorkersExited

\* C6: Crawl never returns while a worker it started is still running.
C6_NoWorkerOutlivesCrawl == cpc = "returned" => WorkersExited

\* Crawl returned an error after starting two workers.
C6_Witness ==
    /\ cpc = "returned"
    /\ numWorkers = 2
    /\ ret.err.kind = "fetch"
    /\ out # <<>>

\* C11: the error Crawl returns is the first error Result the range loop
\* received, with that Result's source URL: an error Result received while
\* exitErr is nil sets it, and from then on every Result received is dropped,
\* leaving exitErr and out as they are.
C11_FirstErrorWins ==
    /\ [][(cpc = "process" /\ cpc' = "collect" /\ exitErr = NoErr /\ cur.err # "none")
             => exitErr' = [kind |-> cur.err, url |-> cur.url]]_vars
    /\ [][exitErr # NoErr => (exitErr' = exitErr /\ out' = out)]_vars
    /\ [][(exitErr = NoErr /\ exitErr' # NoErr) => (cpc = "process" /\ cur.err # "none")]_vars
    /\ []((cpc = "returned" /\ exitErr # NoErr) => (ret.isNil /\ ret.err = exitErr))

\* The range loop holds a second error Result, of another URL, with exitErr set.
C11_Witness ==
    /\ cpc = "process"
    /\ exitErr # NoErr
    /\ cur.err # "none"
    /\ cur.url # exitErr.url

Started == {w \in WorkerIds : wpc[w] # "off"}

\* The workers whose request is in flight.
InFlight == {w \in WorkerIds : wpc[w] = "request"}

\* C13: once Crawl has started its workers there are exactly
\* min(MaxConnections, len(urls)) of them, and never more requests in flight.
C13_WorkersAreMinOfCapAndLen ==
    cpc \in {"collect", "process"} \/ (cpc = "returned" /\ numWorkers > 0) =>
        /\ Cardinality(Started) = numWorkers
        /\ numWorkers <= maxConnections
        /\ numWorkers <= Len(urls)
        /\ numWorkers = maxConnections \/ numWorkers = Len(urls)
        /\ Cardinality(InFlight) <= numWorkers

\* A cap of two and a single URL: one worker, its request in flight.
C13_Witness ==
    /\ maxConnections = 2
    /\ Len(urls) = 1
    /\ Cardinality(Started) = 1
    /\ Cardinality(InFlight) = 1

C19_CheckBeforeRequest ==
    /\ [][\A w \in WorkerIds :
             (wpc[w] = "crawl" /\ CtxDone /\ wpc'[w] # "crawl") =>
                 /\ wpc'[w] = "send"
                 /\ wres'[w].err = "ctx"
                 /\ wres'[w].url \notin issued']_vars
    /\ [][\A w \in WorkerIds :
             (wpc[w] = "crawl" /\ wpc'[w] = "checked") => ~CtxDone]_vars
    /\ [][\A u \in issued' \ issued :
             \E w \in WorkerIds : wpc[w] = "checked" /\ wres[w].url = u]_vars

\* After the first error cancelled the derived context a worker took a task
\* and failed it without a request.
C19_Witness ==
    \E w \in WorkerIds :
        /\ wpc[w] = "send"
        /\ wres[w].err = "ctx"
        /\ wres[w].url \notin issued
        /\ childCancelled
        /\ ~callerCancelled

\* -------------------------------------------------------------- listener

\* The connections Accept returned on which Close was not called.
OpenConns == {c \in Accepted : closeCalls[c] = 0}

\* The Accept calls that acquired a spot and have not returned yet.
HoldingAcceptors == {t \in AcceptorIds : apc[t] \in {"accept", "release"} /\ acquiredLock[t]}

SlotsHeld == Cardinality(OpenConns) + Cardinality(HoldingAcceptors)

\* C2: the spots held, by open connections and by Accept calls that acquired
\* one and have not returned, never exceed the limit.
C2_SlotsWithinLimit == SlotsHeld <= limit

\* Every spot of a window of two is held by an open connection while a
\* further Accept waits, after an earlier connection was closed.
C2_Witness ==
    /\ limit = 2
    /\ Cardinality(OpenConns) = 2
    /\ nextConn = 4
    /\ \E t \in AcceptorIds : apc[t] = "acquire"

\* C8: a connection's spot is released exactly once: the first Close call
\* takes one spot out of the window, every later one leaves the
\* window as it is.
C8_ReleasedExactlyOnce ==
    [][\A c \in ConnIds :
          closeCalls'[c] > closeCalls[c] =>
              window' = IF closeCalls[c] = 0 THEN window - 1 ELSE window]_vars

\* A connection was closed twice while another connection holds a spot.
C8_Witness ==
    \E c \in ConnIds :
        /\ closeCalls[c] = 2
        /\ connOnce[c]
        /\ window > 0

\* C9: once Done was called no Acquire succeeds: every Acquire that returns
\* afterwards returns false and leaves the window as it is, whether or not
\* the window has room.
C9_NoAcquireAfterDone ==
    [][rlDone =>
          \A t \in AcceptorIds :
              (apc[t] = "acquire" /\ apc'[t] # "acquire") =>
                  (~acquiredLock'[t] /\ window' = window)]_vars

\* C10: with every spot held and the listener open a further Accept waits in
\* Acquire; when a spot is free (a connection was closed) it can proceed.
C10_FullWindowBlocksAccept ==
    \A t \in AcceptorIds :
        apc[t] = "acquire" =>
            /\ (SlotsHeld = limit /\ ~rlDone) =>
                  ~ENABLED (AcquireTrue(t) \/ AcquireFalse(t))
            /\ SlotsHeld < limit => ENABLED AcquireTrue(t)

\* An Accept waits while open connections hold every spot, after an earlier
\* Accept had to wait for a connection to be closed.
C10_Witness ==
    /\ Cardinality(OpenConns) = limit
    /\ nextConn - 1 > limit
    /\ ~lnClosed
    /\ \E t \in AcceptorIds : apc[t] = "acquire"

\* C15: an Accept that acquired a spot and whose underlying Accept fails
\* goes through Release, which never waits, and returns no connection; when
\* it has returned the window holds what it held before the call's Acquire:
\* the spots of the open connections and of the other calls in progress.
C15_FailedAcceptReleases ==
    /\ [][\A t \in AcceptorIds :
             (apc[t] = "accept" /\ acquiredLock[t] /\ apc'[t] # "accept"
                 /\ nextConn' = nextConn) => apc'[t] = "release"]_vars
    /\ [](\A t \in AcceptorIds : apc[t] = "release" => ENABLED AcceptRelease(t))
    /\ [][\A t \in AcceptorIds :
             (apc[t] = "release" /\ apc'[t] # "release") =>
                 /\ apc'[t] = "idle"
                 /\ window' = window - 1
                 /\ nextConn' = nextConn]_vars
    /\ [](window = SlotsHeld)

\* The underlying Accept of an open listener failed for a call that holds a
\* spot, while an open connection holds another.
C15_Witness ==
    \E t \in AcceptorIds :
        /\ apc[t] = "release"
        /\ acquiredLock[t]
        /\ ~lnClosed
        /\ Cardinality(OpenConns) = 1
        /\ window = 2

\* The steps of the Accept call of t.
AcceptStep(t) ==
    AcquireTrue(t) \/ AcquireFalse(t) \/ AcceptErr(t) \/ AcceptRelease(t)

\* C18: once listener.Close has returned no Accept call in progress is
\* stuck, not even with every spot held; once the underlying listener is
\* closed every Accept call that returns returns no connection and leaves
\* the window without the spot it acquired, if it acquired one.
C18_CloseUnblocksAccept ==
    /\ [](lcpc = "returned" =>
             \A t \in AcceptorIds : apc[t] # "idle" => ENABLED AcceptStep(t))
    /\ [][lnClosed =>
             \A t \in AcceptorIds :
                 (apc[t] # "idle" /\ apc'[t] = "idle") =>
                     /\ nextConn' = nextConn
                     /\ ~acquiredLock'[t]
                     /\ window' = IF acquiredLock[t] THEN window - 1 ELSE window]_vars

\* With every spot held by an open connection and the listener closed, an
\* Accept call got false from Acquire.
C18_Witness ==
    \E t \in AcceptorIds :
        /\ apc[t] = "accept"
        /\ ~acquiredLock[t]
        /\ Cardinality(OpenConns) = limit
        /\ lcpc = "returned"

\* C21: a connection is returned only by an Accept call whose Acquire
\* returned true; every Release, in Accept's error path and in a
\* connection's first Close, finds a value in the window, and the window
\* holds one value for each open connection and each Accept call that
\* acquired a spot and has not returned, so that a Release takes the value
\* its own Acquire put there.
C21_ReleaseMatchesAcquire ==
    /\ [][nextConn' # nextConn =>
             \E t \in AcceptorIds :
                 apc[t] = "accept" /\ apc'[t] = "idle" /\ acquiredLock[t]]_vars
    /\ [](\A t \in AcceptorIds : (apc[t] = "accept" /\ ~acquiredLock[t]) =>
             (rlDone /\ ~ENABLED AcceptOk(t)))
    /\ [](\A t \in AcceptorIds : apc[t] = "release" => (acquiredLock[t] /\ ReleaseReady))
    /\ [](\A c \in Accepted : ~connOnce[c] => (ReleaseReady /\ ENABLED ConnClose(c)))
    /\ [][window' < window =>
             /\ window' = window - 1
             /\ Cardinality(OpenConns') + Cardinality(HoldingAcceptors')
                   = Cardinality(OpenConns) + Cardinality(HoldingAcceptors) - 1]_vars

\* After listener.Close an Accept call got false from Acquire, while one
\* connection has released its spot and another still holds one.
C21_Witness ==
    /\ \E t \in AcceptorIds : apc[t] = "accept" /\ ~acquiredLock[t]
    /\ \E c \in Accepted : connOnce[c]
    /\ OpenConns # {}
    /\ window = Cardinality(OpenConns)

\* ---------------------------------------------------------------- closer

\* C5: however many times Close is called, no function is started twice, and
\* once a Close call has returned every function registered before the first
\* Close call was started exactly once and has run.
C5_HooksRunExactlyOnce ==
    /\ \A h \in HookIds : hlaunches[h] <= 1
    /\ (\E k \in CloserIds : clpc[k] = "returned") =>
          \A h \in early : hlaunches[h] = 1 /\ hstate[h] = "sent"

\* Two Close calls have returned with two functions registered beforehand.
C5_Witness ==
    /\ \A k \in CloserIds : clpc[k] = "returned"
    /\ Cardinality(early) = 2

\* C7: Wait returns only after c.done is closed, and c.done is closed only
\* after every function Close started has returned.
C7_WaitAfterHooks ==
    /\ \A j \in WaiterIds : wtpc[j] = "returned" => doneClosed
    /\ doneClosed =>
          \A i \in 1..Len(taken) : hstate[taken[i]] \in {"finished", "sent"}

\* A Wait call returned after two functions ran, one returning an error.
C7_Witness ==
    /\ \E j \in WaiterIds : wtpc[j] = "returned"
    /\ Len(taken) = 2
    /\ \E h \in HookIds : hres[h] = "err"

\* C16: after Close is called, with every function terminating, every
\* function Close took is started and runs to the end, c.done is closed and
\* every Wait call returns, whichever functions returned an error.
C16_ErrorsDoNotBlockShutdown ==
    /\ TriggerBegun ~>
          (doneClosed /\ \A i \in 1..Len(taken) : hstate[taken[i]] = "sent")
    /\ \A j \in WaiterIds :
          (wtpc[j] = "waiting" /\ TriggerBegun) ~> wtpc[j] = "returned"

\* Two functions ran, both returning an error, and a Wait call returned.
C16_Witness ==
    /\ Len(taken) = 2
    /\ \A h \in HookIds : hstate[h] = "sent" /\ hres[h] = "err"
    /\ doneClosed
    /\ \E j \in WaiterIds : wtpc[j] = "returned"

\* C17 as stated: no function passed to Add after a Close call was made is
\* ever started.
C17_NoRunOfAddAfterCloseCall ==
    \A h \in Registered \ early : hlaunches[h] = 0

\* C17 as amended: Close takes c.funcs whole, once; the functions it starts
\* are those it took, each once by the time c.done is closed; a function
\* passed to Add after the take stays in c.funcs and is never started.
C17_NoRunOfAddAfterTake ==
    /\ [][\A k \in CloserIds :
             (clpc[k] = "body" /\ clpc'[k] # "body") =>
                 (taken' = funcs /\ funcs' = <<>>)]_vars
    /\ [][TakeDone => taken' = taken]_vars
    /\ [](TakeDone =>
             \A i \in 1..Len(funcs) :
                 hlaunches[funcs[i]] = 0 /\ hstate[funcs[i]] = "none")
    /\ [](\A h \in HookIds :
             hlaunches[h] > 0 => \E i \in 1..Len(taken) : taken[i] = h)
    /\ [](doneClosed => \A i \in 1..Len(taken) : hlaunches[taken[i]] = 1)

\* c.done is closed; a function passed to Add after the Close call and before
\* the take has run, one passed to Add after the take is left in c.funcs.
C17_Witness ==
    /\ doneClosed
    /\ early = {}
    /\ Len(taken) = 1
    /\ hstate[taken[1]] = "sent"
    /\ Len(funcs) = 1

\* Idle, draining, done.
Phase == IF doneClosed THEN 2 ELSE IF onceState # "idle" THEN 1 ELSE 0

\* The position of c.once.
OnceRank == CASE onceState = "idle" -> 0 [] onceState = "running" -> 1 [] OTHER -> 2

\* C20: the closer goes from idle to draining to done, a step at a time and
\* never back; with c.done closed it stays closed, no function is taken or
\* started any more, and a Wait call can return at once.
C20_PhasesOnlyAdvance ==
    /\ [][Phase' >= Phase /\ Phase' <= Phase + 1]_vars
    /\ [][OnceRank' >= OnceRank]_vars
    /\ [][doneClosed =>
             (doneClosed' /\ taken' = taken /\ hlaunches' = hlaunches
                 /\ hstate' = hstate)]_vars
    /\ [](\A j \in WaiterIds :
             (wtpc[j] = "waiting" /\ doneClosed) => ENABLED WaitReturn(j))

\* With c.done closed, a second Close call has returned, Add was called and a
\* Wait call has returned.
C20_Witness ==
    /\ doneClosed
    /\ \A k \in CloserIds : clpc[k] = "returned"
    /\ funcs # <<>>
    /\ \E j \in WaiterIds : wtpc[j] = "returned"

\* C22: with every fetch completing or failing and every goroutine
\* scheduled, the Crawl call returns, whether every task succeeds, a task
\* fails or the caller cancels.
C22_CrawlReturns == <>(cpc = "returned")

\* Crawl returned the first error after the range loop had received the
\* Result of the other worker's completed fetch.
C22_Witness ==
    /\ cpc = "returned"
    /\ numWorkers = 2
    /\ ret.err.kind = "fetch"
    /\ Cardinality(completed) = 2
    /\ \A w \in WorkerIds : wpc[w] = "done"

\* C23: a Close call, the first or a later one, returns only with c.done
\* closed and every function of the run started once and finished; a Close
\* call made while the first is inside once.Do has no step until the first
\* has left it.
C23_EveryCloseWaitsForDrain ==
    /\ [][\A k \in CloserIds :
             (clpc[k] # "returned" /\ clpc'[k] = "returned") =>
                 /\ doneClosed
                 /\ \A i \in 1..Len(taken) :
                       hlaunches[taken[i]] = 1 /\ hstate[taken[i]] = "sent"]_vars
    /\ [](\A k \in CloserIds :
             (clpc[k] = "once" /\ onceState = "running") => ~ENABLED CloserStep(k))

\* A second Close call waits in once.Do while a function of the first is
\* still running.
C23_Witness ==
    /\ onceState = "running"
    /\ \E k \in CloserIds : clpc[k] = "once"
    /\ \E h \in HookIds : hstate[h] = "launched"
    /\ \E h \in HookIds : hstate[h] = "sent"

====
